---- MODULE Spec2Model ----
(***************************************************************************)
(* A model of colormapping.py: the raised-relief map pipeline.             *)
(*                                                                         *)
(*   - find_neighbours / is_neighbourhood_flat : the flatness classifier   *)
(*   - spherical_coordinates                   : the projection            *)
(*   - build_map                               : vertices, scalars, quads  *)
(*   - main (lines 143-165)                    : the colour lookup table   *)
(*                                                                         *)
(* Python lists are modelled as TLA+ sequences: the Python element l[p]    *)
(* is the TLA+ element l[p + 1].  Indices stored in the vtk containers     *)
(* (point ids, tuple ids) are kept 0-based, as in the program.             *)
(***************************************************************************)
EXTENDS Integers, Sequences, FiniteSets, TLC

VARIABLES
    rows, cols, heights, sea_level,   \* the arguments of build_map
    pc, outcome,                      \* control position, and how the call ended
    i, j,                             \* loop counters of build_map / arguments of the classifier
    points, scalars, cells,           \* vtkPoints, vtkFloatArray, vtkCellArray
    nbr_neighbours, dist, is_flat,    \* arguments and result of is_neighbourhood_flat
    min_alt, max_alt,                 \* table range of the lookup table
    colour_trans, table, alt,         \* vtkColorTransferFunction nodes, table values, loop counter
    workers                           \* per-worker position, for the build split over row ranges

gridVars == <<rows, cols, heights, sea_level>>
meshVars == <<points, scalars, cells>>
flatVars == <<nbr_neighbours, dist, is_flat>>
lutVars  == <<min_alt, max_alt, colour_trans, table, alt>>
vars == <<rows, cols, heights, sea_level, pc, outcome, i, j, points, scalars, cells,
          nbr_neighbours, dist, is_flat, min_alt, max_alt, colour_trans, table, alt,
          workers>>

-----------------------------------------------------------------------------
(* Bounds of the model.                                                    *)

MaxRows == 4
MaxCols == 4
\* a grid is a background elevation with at most MaxDev cells at another one
MaxDev == 1
\* bounds of the grids the classifier is called on alone
MaxFlatRows == 3
MaxFlatCols == 3
MaxFlatDev == 2
MaxDist == 2
\* bounds of the grids built by two workers
MaxParRows == 2
MaxParCols == 2

Elevations == {-50, 100, 500}
SeaLevels == {0, 370}
FlatValues == {0, 1}
Thresholds == {-1, 0, 1, 3, 5}

-----------------------------------------------------------------------------
(* Program constants.                                                      *)

EARTH_RADIUS == 6371009
\* LAT_MIN = 45, LAT_MAX = 47.5, LONG_MIN = 5, LONG_MAX = 7.5, in tenths of a degree
LAT_MIN == 450
LAT_MAX == 475
LONG_MIN == 50
LONG_MAX == 75
NBR_VAL_FLAT == 8
\* the literal of the face guard `j != 3000`
LAST_COLUMN == 3000

-----------------------------------------------------------------------------
(* Helpers for Python's built-ins.                                         *)

Min2(a, b) == IF a <= b THEN a ELSE b
Max2(a, b) == IF a >= b THEN a ELSE b

SeqRange(s) == {s[k] : k \in 1..Len(s)}

\* max(list) / min(list) of a non-empty list
PyMax(s) == CHOOSE x \in SeqRange(s) : \A y \in SeqRange(s) : x >= y
PyMin(s) == CHOOSE x \in SeqRange(s) : \A y \in SeqRange(s) : x <= y

\* a slice bound as Python normalises it: negative counts from the end, then clamped
PySliceBound(b, len) ==
    LET c == IF b < 0 THEN b + len ELSE b
    IN  IF c < 0 THEN 0 ELSE IF c > len THEN len ELSE c

\* l[start:stop]
PySlice(l, start, stop) ==
    SubSeq(l, PySliceBound(start, Len(l)) + 1, PySliceBound(stop, Len(l)))

\* list.count(x)
PyCount(l, x) == Cardinality({k \in 1..Len(l) : l[k] = x})

\* [el for nl in ll for el in nl]
RECURSIVE Flatten(_)
Flatten(ll) == IF ll = <<>> THEN <<>> ELSE Head(ll) \o Flatten(Tail(ll))

\* heights[i][j]
At(m, r, c) == m[r + 1][c + 1]

-----------------------------------------------------------------------------
(* coord_to_idx, lines 40-42.                                              *)

coord_to_idx_swapped(r, c, width) == r + c * width

coord_to_idx(r, c, width) == c + r * width

-----------------------------------------------------------------------------
(* spherical_coordinates, lines 45-63.                                     *)
(*                                                                         *)
(* The steps divide by rows - 1 and cols - 1: with either zero, Python     *)
(* raises ZeroDivisionError at line 48 or 49.  Otherwise the point is      *)
(* determined by (rho, delta, theta); delta and theta are kept as exact    *)
(* fractions <<numerator, denominator>> of tenths of a degree, and x, y, z *)
(* (lines 59-61) are the fixed trigonometric function of the three.        *)

StepUndefined(nrows, ncols) == nrows - 1 = 0 \/ ncols - 1 = 0

spherical_coordinates(latitude, longitude, distance, nrows, ncols) ==
    [delta |-> <<LAT_MAX * (nrows - 1) - latitude * (LAT_MAX - LAT_MIN), nrows - 1>>,
     theta |-> <<LONG_MIN * (ncols - 1) + longitude * (LONG_MAX - LONG_MIN), ncols - 1>>,
     rho   |-> distance + EARTH_RADIUS]

-----------------------------------------------------------------------------
(* find_neighbours and is_neighbourhood_flat, lines 66-80.                 *)

find_neighbours_sym(m, r, c, d) ==
    LET neighbours == [k \in 1..Len(PySlice(m, Max2(0, r - d), r + d + 1)) |->
                          PySlice(PySlice(m, Max2(0, r - d), r + d + 1)[k],
                                  Max2(0, c - d), c + d + 1)]
    IN  Flatten(neighbours)

find_neighbours(m, r, c, d) ==
    LET band == PySlice(m, Max2(0, r - 1), r + d + 1)
        neighbours == [k \in 1..Len(band) |-> PySlice(band[k], Max2(0, c - d), c + d + 1)]
    IN  Flatten(neighbours)

is_neighbourhood_flat(m, r, c, n, d) ==
    LET hs == find_neighbours(m, r, c, d)
        counts == [k \in 1..Len(hs) |-> PyCount(hs, hs[k])]
    IN  PyMax(counts) > n

-----------------------------------------------------------------------------
(* The vtk containers as build_map uses them.                              *)

\* vtkPoints.InsertNextPoint: appends, the new point's id is the old count
InsertNextPoint(pts, p) == Append(pts, p)

\* vtkFloatArray.InsertTuple1(idx, v): writes slot idx, growing the array to
\* hold it; slots below idx that were never written hold no defined value and
\* are left out of the function's domain
InsertTuple1_next(arr, idx, v) ==
    [k \in DOMAIN arr \cup {idx + 1} |-> IF k = idx + 1 THEN v ELSE arr[k]]

InsertTuple1(arr, idx, v) ==
    [k \in DOMAIN arr \cup {idx} |-> IF k = idx THEN v ELSE arr[k]]

\* GetNumberOfTuples: MaxId + 1
NumberOfTuples(arr) ==
    IF DOMAIN arr = {} THEN 0
    ELSE (CHOOSE k \in DOMAIN arr : \A l \in DOMAIN arr : k >= l) + 1

\* vtkCellArray.InsertNextCell(4, quad)
InsertNextCell(cs, quad) == Append(cs, quad)

EmptyArray == [k \in {} |-> 0]

-----------------------------------------------------------------------------
(* The body of build_map's loop for cell (r, c), lines 91-103.             *)

cell_height_unclamped(m, r, c, sea) == At(m, r, c)

cell_height(m, r, c, sea) == IF At(m, r, c) <= sea THEN sea ELSE At(m, r, c)

cell_scalar_and(flat, h, sea) == IF flat /\ h <= sea THEN 0 ELSE h

cell_scalar(flat, h, sea) == IF flat \/ h <= sea THEN 0 ELSE h

cell_has_face(r, c) == r # 0 /\ c # LAST_COLUMN

cell_quad(r, c, width) ==
    <<coord_to_idx(r, c, width),
      coord_to_idx(r, c + 1, width),
      coord_to_idx(r - 1, c + 1, width),
      coord_to_idx(r - 1, c, width)>>

-----------------------------------------------------------------------------
(* Grids: read_height_matrix returns rows, cols and a rows x cols matrix.  *)

Cells(nrows, ncols) == (0..nrows - 1) \X (0..ncols - 1)

Grid(nrows, ncols, b, d, dev) ==
    [r \in 1..nrows |-> [c \in 1..ncols |-> IF <<r - 1, c - 1>> \in dev THEN d ELSE b]]

Subsets(S, n) == {T \in SUBSET S : Cardinality(T) <= n}

Grids(nrows, ncols, values, n) ==
    {Grid(nrows, ncols, b, d, dev) :
        b \in values, d \in values, dev \in Subsets(Cells(nrows, ncols), n)}

-----------------------------------------------------------------------------
(* build_map, lines 83-111, one cell per step; then main's line 143.       *)

Idle ==
    /\ nbr_neighbours = 0 /\ dist = 0 /\ is_flat = FALSE
    /\ workers = <<>>

NoLut ==
    /\ min_alt = 0 /\ max_alt = 0
    /\ colour_trans = <<>> /\ table = <<>> /\ alt = 0

Init ==
    /\ rows \in 0..MaxRows
    /\ cols \in 0..MaxCols
    /\ heights \in Grids(rows, cols, Elevations, MaxDev)
    /\ sea_level \in SeaLevels
    /\ pc = "build" /\ outcome = "running"
    /\ i = 0 /\ j = 0
    /\ points = <<>> /\ scalars = EmptyArray /\ cells = <<>>
    /\ Idle /\ NoLut

\* lines 91-103 for cell (i, j), then the loops' increments
BuildCell ==
    /\ pc = "build"
    /\ i < rows /\ j < cols
    /\ ~StepUndefined(rows, cols)
    /\ points' = InsertNextPoint(points,
          spherical_coordinates(i, j, cell_height(heights, i, j, sea_level), rows, cols))
    /\ scalars' = InsertTuple1(scalars, coord_to_idx(i, j, cols),
          cell_scalar(is_neighbourhood_flat(heights, i, j, NBR_VAL_FLAT, 1),
                      At(heights, i, j), sea_level))
    /\ cells' = IF cell_has_face(i, j)
                THEN InsertNextCell(cells, cell_quad(i, j, cols))
                ELSE cells
    /\ IF j + 1 < cols THEN i' = i /\ j' = j + 1 ELSE i' = i + 1 /\ j' = 0
    /\ UNCHANGED <<gridVars, pc, outcome, flatVars, lutVars, workers>>

\* line 92 with rows = 1 or cols = 1: the division of line 48 or 49 raises
\* before InsertNextPoint is called
BuildCellRaises ==
    /\ pc = "build"
    /\ i < rows /\ j < cols
    /\ StepUndefined(rows, cols)
    /\ pc' = "raised" /\ outcome' = "ZeroDivisionError"
    /\ UNCHANGED <<gridVars, i, j, meshVars, flatVars, lutVars, workers>>

\* lines 105-111: the loops are over (also at once when rows = 0 or cols = 0)
BuildReturn ==
    /\ pc = "build"
    /\ i >= rows \/ cols <= 0
    /\ pc' = "main" /\ outcome' = "mesh"
    /\ UNCHANGED <<gridVars, i, j, meshVars, flatVars, lutVars, workers>>

\* line 143: min and max of the grid
GridMaxAsMin(m) == PyMax([r \in 1..Len(m) |-> PyMax(m[r])])

GridMin(m) == PyMin([r \in 1..Len(m) |-> PyMin(m[r])])

GridMax(m) == PyMax([r \in 1..Len(m) |-> PyMax(m[r])])

MainRange ==
    /\ pc = "main"
    /\ rows > 0 /\ cols > 0
    /\ min_alt' = GridMin(heights) /\ max_alt' = GridMax(heights)
    /\ pc' = "lut"
    /\ UNCHANGED <<gridVars, outcome, i, j, meshVars, flatVars, colour_trans, table, alt,
                   workers>>

\* line 143 on a grid without a value: min() of an empty list raises
MainRangeRaises ==
    /\ pc = "main"
    /\ rows <= 0 \/ cols <= 0
    /\ pc' = "raised" /\ outcome' = "ValueError"
    /\ UNCHANGED <<gridVars, i, j, meshVars, flatVars, lutVars, workers>>

Next == BuildCell \/ BuildCellRaises \/ BuildReturn \/ MainRange \/ MainRangeRaises

Spec == Init /\ [][Next]_vars

-----------------------------------------------------------------------------
(* vtkLookupTable as main configures it, lines 147-153: with                *)
(* UseBelowRangeColorOn, a scalar strictly below the table range's lower    *)
(* end is drawn in the below-range colour; every other scalar is drawn in   *)
(* an entry of the table.                                                   *)

UsesBelowRangeColor(s, lo) == s < lo

-----------------------------------------------------------------------------
(* Properties of build_map.                                                *)

ValidGrid == rows >= 2 /\ cols >= 2

\* the vertex height of the point stored with id idx
VertexHeight(idx) == points[idx + 1].rho - EARTH_RADIUS

\* the cells visited so far, in row-major order
Visited == i * cols + j

\* C1: once build_map has visited all cells of a valid grid, the vertex with id
\* c + r*cols is the projection of cell (r, c) at height max(sea_level, grid[r][c]),
\* and the scalar with the same id is 0 if the neighbourhood is flat or the cell is
\* at or below sea level, and the raw grid[r][c] otherwise.
C1_VertexAndScalarPerCell ==
    (ValidGrid /\ outcome = "mesh") =>
        \A r \in 0..rows - 1, c \in 0..cols - 1 :
            LET idx == c + r * cols
                h == At(heights, r, c)
            IN  /\ idx + 1 \in DOMAIN points
                /\ points[idx + 1] =
                      spherical_coordinates(r, c, Max2(sea_level, h), rows, cols)
                /\ idx \in DOMAIN scalars
                /\ scalars[idx] =
                      IF is_neighbourhood_flat(heights, r, c, NBR_VAL_FLAT, 1)
                            \/ h <= sea_level
                      THEN 0 ELSE h

\* a finished build of a grid that holds a flat cell, a sea cell and a raw cell
C1_Witness ==
    /\ ValidGrid /\ outcome = "mesh"
    /\ \E idx \in DOMAIN scalars : scalars[idx] # 0
    /\ \E r \in 0..rows - 1, c \in 0..cols - 1 :
          is_neighbourhood_flat(heights, r, c, NBR_VAL_FLAT, 1) /\ At(heights, r, c) > sea_level
    /\ \E r \in 0..rows - 1, c \in 0..cols - 1 :
          At(heights, r, c) < sea_level /\ VertexHeight(c + r * cols) = sea_level

\* the quad the face of cell (r, c) is meant to be: (r,c), (r,c+1), (r-1,c+1), (r-1,c)
QuadOfCells(r, c) ==
    <<c + r * cols, (c + 1) + r * cols, (c + 1) + (r - 1) * cols, c + (r - 1) * cols>>

\* C2: every emitted quad is made of the ids of four cells of the grid, (r,c),
\* (r,c+1), (r-1,c+1), (r-1,c), so every id of every face lies in [0, rows*cols).
C2_FacesAreGridCells ==
    \A f \in 1..Len(cells) :
        /\ \E r \in 1..rows - 1, c \in 0..cols - 2 : cells[f] = QuadOfCells(r, c)
        /\ \A k \in 1..4 : cells[f][k] >= 0 /\ cells[f][k] < rows * cols

\* C3: on a valid grid the vertices inserted so far are as many as the cells
\* visited so far, and the returned mesh holds rows*cols vertices and rows*cols
\* scalars.
C3_Counts ==
    ValidGrid =>
        /\ pc = "build" => Len(points) = Visited
        /\ outcome = "mesh" =>
              Len(points) = rows * cols /\ NumberOfTuples(scalars) = rows * cols

\* the build of a valid grid of at least 6 cells, returned
C3_Witness == ValidGrid /\ outcome = "mesh" /\ Len(points) = rows * cols /\ rows * cols >= 6

\* C5: with rows < 2 or cols < 2 the build ends in a ConfigError raised before any
\* vertex is projected or inserted, never in another error and never with a mesh.
C5_SmallGridConfigError ==
    ((rows < 2 \/ cols < 2) /\ pc # "build") =>
        outcome = "ConfigError" /\ points = <<>>

\* the 4x4 grid of elevation 100 everywhere, built with sea_level = 0
Uniform100Built ==
    /\ rows = 4 /\ cols = 4 /\ sea_level = 0
    /\ \A r \in 0..3, c \in 0..3 : At(heights, r, c) = 100
    /\ outcome = "mesh"

\* C6 as stated: on the 4x4 grid of 100s every one of the 16 scalars is 0 and
\* every one of the 16 vertex heights is 100.
C6_AllScalarsZero ==
    Uniform100Built =>
        \A idx \in 0..15 : scalars[idx] = 0 /\ VertexHeight(idx) = 100

\* C6 amended: on the 4x4 grid of 100s every vertex height is 100; the scalar is 0
\* for the 4 interior cells only and 100 for the 12 corner and edge cells.
C6_InteriorScalarsZero ==
    Uniform100Built =>
        \A r \in 0..3, c \in 0..3 :
            /\ VertexHeight(c + r * 4) = 100
            /\ scalars[c + r * 4] = IF r \in 1..2 /\ c \in 1..2 THEN 0 ELSE 100

C6_Witness == Uniform100Built /\ pc = "lut"

\* C7 as stated: with the table range taken from the grid, a cell at or below sea
\* level has vertex height sea_level, scalar 0, and the below-range colour.
C7_SeaCellBelowRange ==
    pc = "lut" =>
        \A r \in 0..rows - 1, c \in 0..cols - 1 :
            At(heights, r, c) <= sea_level =>
                /\ VertexHeight(c + r * cols) = sea_level
                /\ scalars[c + r * cols] = 0
                /\ UsesBelowRangeColor(scalars[c + r * cols], min_alt)

\* C7 amended: such a cell has vertex height sea_level and scalar 0, and it gets
\* the below-range colour exactly when every elevation of the grid is above 0;
\* otherwise (as in the 4x4 grid with one cell at -50) its scalar 0 is within the
\* table range and is drawn in an entry of the table.
C7_SeaCellColour ==
    pc = "lut" =>
        \A r \in 0..rows - 1, c \in 0..cols - 1 :
            At(heights, r, c) <= sea_level =>
                /\ VertexHeight(c + r * cols) = sea_level
                /\ scalars[c + r * cols] = 0
                /\ UsesBelowRangeColor(scalars[c + r * cols], min_alt)
                      <=> (\A r2 \in 0..rows - 1, c2 \in 0..cols - 1 :
                              At(heights, r2, c2) > 0)

\* the 4x4 grid with one cell at -50 and the rest at 500, sea_level = 0, table
\* range set: the cell at -50 is drawn in an entry of the table
C7_Witness ==
    /\ pc = "lut" /\ rows = 4 /\ cols = 4 /\ sea_level = 0
    /\ \E r \in 0..3, c \in 0..3 :
          /\ At(heights, r, c) = -50
          /\ \A r2 \in 0..3, c2 \in 0..3 :
                <<r2, c2>> # <<r, c>> => At(heights, r2, c2) = 500
          /\ scalars[c + r * 4] = 0
          /\ ~UsesBelowRangeColor(scalars[c + r * 4], min_alt)

\* a grid above 0 with a cell under a raised sea level: drawn in the below-range colour
C7_WitnessBelow ==
    /\ pc = "lut" /\ sea_level > 0
    /\ \E r \in 0..rows - 1, c \in 0..cols - 1 :
          /\ At(heights, r, c) <= sea_level
          /\ UsesBelowRangeColor(scalars[c + r * cols], min_alt)

-----------------------------------------------------------------------------
(* is_neighbourhood_flat called on its own, lines 76-80: the arguments are *)
(* drawn from bounded sets and the call returns in one step.  The call     *)
(* builds new lists from slices of m and assigns to no element of m.       *)

InitFlat ==
    /\ rows \in 1..MaxFlatRows
    /\ cols \in 1..MaxFlatCols
    /\ heights \in Grids(rows, cols, FlatValues, MaxFlatDev)
    /\ sea_level = 0
    /\ i \in 0..rows - 1 /\ j \in 0..cols - 1
    /\ nbr_neighbours \in Thresholds \cup {NBR_VAL_FLAT}
    /\ dist \in 0..MaxDist
    /\ is_flat = FALSE
    /\ pc = "call" /\ outcome = "running"
    /\ points = <<>> /\ scalars = EmptyArray /\ cells = <<>>
    /\ workers = <<>>
    /\ NoLut

FlatCall ==
    /\ pc = "call"
    /\ is_flat' = is_neighbourhood_flat(heights, i, j, nbr_neighbours, dist)
    /\ pc' = "returned" /\ outcome' = "bool"
    /\ UNCHANGED <<gridVars, i, j, meshVars, nbr_neighbours, dist, lutVars, workers>>

NextFlat == FlatCall

SpecFlat == InitFlat /\ [][NextFlat]_vars

\* the window of the classifier: rows max(0, i-1) .. min(rows-1, i+dist),
\* columns max(0, j-dist) .. min(cols-1, j+dist)
Window ==
    (Max2(0, i - 1)..Min2(rows - 1, i + dist)) \X (Max2(0, j - dist)..Min2(cols - 1, j + dist))

Occurrences(v) == Cardinality({cell \in Window : At(heights, cell[1], cell[2]) = v})

-----------------------------------------------------------------------------
(* The colour lookup table, main lines 144-165, for a table range          *)
(* (min_alt, max_alt).                                                     *)
(*                                                                         *)
(* mid_alt = (max_alt - min_alt) / 2 can be a half: the positions of the   *)
(* gradient's nodes are kept in half metres (x2 = 2*x).  A colour is a     *)
(* triple of hundredths; a sampled colour is a triple of reduced fractions *)
(* <<numerator, denominator>> of hundredths.                               *)
(*                                                                         *)
(* vtkColorTransferFunction: AddRGBPoint(x, ...) first removes a node      *)
(* already at x, then adds the node and keeps the nodes sorted by x;       *)
(* GetColor(x) is the first node's colour up to the first node, the last   *)
(* node's colour from the last node on, and linear in between.             *)

RampMins == {-50, 0, 200}
RampSpans == {0, 1, 550, 2000}

Green == <<25, 46, 24>>
Beige == <<73, 69, 55>>
White == <<100, 100, 100>>

RECURSIVE Gcd(_, _)
Gcd(a, b) == IF b = 0 THEN a ELSE Gcd(b, a % b)

Abs(a) == IF a < 0 THEN -a ELSE a

Fraction(num, den) ==
    LET g == Gcd(Abs(num), Abs(den)) IN <<num \div g, den \div g>>

\* line 145
nbr_colors(lo, hi) == hi - lo

\* 2 * mid_alt, line 144
mid_alt2(lo, hi) == hi - lo

AddRGBPoint(nodes, x2, rgb) ==
    LET before == SelectSeq(nodes, LAMBDA n : n.x2 < x2)
        after  == SelectSeq(nodes, LAMBDA n : n.x2 > x2)
    IN  before \o <<[x2 |-> x2, rgb |-> rgb]>> \o after

GetColor(nodes, x2) ==
    IF x2 <= nodes[1].x2 THEN [c \in 1..3 |-> Fraction(nodes[1].rgb[c], 1)]
    ELSE IF x2 >= nodes[Len(nodes)].x2
         THEN [c \in 1..3 |-> Fraction(nodes[Len(nodes)].rgb[c], 1)]
    ELSE LET k == CHOOSE k \in 1..Len(nodes) - 1 : nodes[k].x2 <= x2 /\ x2 < nodes[k + 1].x2
             a == nodes[k]
             b == nodes[k + 1]
         IN  [c \in 1..3 |->
                 Fraction(a.rgb[c] * (b.x2 - x2) + b.rgb[c] * (x2 - a.x2), b.x2 - a.x2)]

\* vtkLookupTable.SetTableValue(idx, colour): the loop writes idx = 0, 1, ... in order
SetTableValue(t, idx, colour) ==
    IF idx < Len(t) THEN [t EXCEPT ![idx + 1] = colour] ELSE Append(t, colour)

InitRamp ==
    /\ min_alt \in RampMins
    /\ \E span \in RampSpans : max_alt = min_alt + span
    /\ colour_trans = <<>> /\ table = <<>> /\ alt = 0
    /\ pc = "lut" /\ outcome = "running"
    /\ rows = 0 /\ cols = 0 /\ heights = <<>> /\ sea_level = 0
    /\ i = 0 /\ j = 0
    /\ points = <<>> /\ scalars = EmptyArray /\ cells = <<>>
    /\ Idle

rampFrame == <<gridVars, outcome, i, j, meshVars, flatVars, min_alt, max_alt, workers>>

\* line 157
AddGreen ==
    /\ pc = "lut"
    /\ colour_trans' = AddRGBPoint(colour_trans, 2 * min_alt, Green)
    /\ pc' = "beige"
    /\ UNCHANGED <<rampFrame, table, alt>>

\* line 158
AddBeige ==
    /\ pc = "beige"
    /\ colour_trans' = AddRGBPoint(colour_trans, mid_alt2(min_alt, max_alt) - 2000, Beige)
    /\ pc' = "white"
    /\ UNCHANGED <<rampFrame, table, alt>>

\* line 159
AddWhite ==
    /\ pc = "white"
    /\ colour_trans' = AddRGBPoint(colour_trans, 2 * max_alt - 2000, White)
    /\ pc' = "fill"
    /\ UNCHANGED <<rampFrame, table, alt>>

\* lines 161-163, one iteration
FillTable ==
    /\ pc = "fill"
    /\ alt < nbr_colors(min_alt, max_alt)
    /\ table' = SetTableValue(table, alt, GetColor(colour_trans, 2 * (min_alt + alt)))
    /\ alt' = alt + 1
    /\ UNCHANGED <<rampFrame, pc, colour_trans>>

\* line 165, after the loop: lut.Build() writes no entry of the gradient
LutBuild ==
    /\ pc = "fill"
    /\ alt >= nbr_colors(min_alt, max_alt)
    /\ pc' = "done"
    /\ UNCHANGED <<rampFrame, colour_trans, table, alt>>

NextRamp == AddGreen \/ AddBeige \/ AddWhite \/ FillTable \/ LutBuild

SpecRamp == InitRamp /\ [][NextRamp]_vars

\* C8: the table built for min_alt = 0 and max_alt = 2000 has at offset 0 exactly
\* the green control-point colour: the entry at offset k is the gradient sampled
\* at min_alt + k, and the sample at min_alt is the green point, not the beige one.
C8_OffsetZeroIsGreen ==
    (min_alt = 0 /\ max_alt = 2000 /\ Len(table) >= 1) =>
        table[1] = [c \in 1..3 |-> <<Green[c], 1>>]

\* C9: with min_alt = max_alt (nbr_colors = 0) the construction writes a table of
\* exactly one colour entry, never an empty one.
C9_DegenerateRangeOneEntry ==
    (pc = "done" /\ min_alt = max_alt) => Len(table) = 1

-----------------------------------------------------------------------------
(* The body of build_map's loop run by two workers over disjoint row       *)
(* ranges, rows 0 .. split-1 and split .. rows-1, against the same three   *)
(* containers.  Each container call of the body (lines 92, 96, 103) is one *)
(* step of its worker; the steps of the two workers interleave freely.     *)

Workers == {1, 2}
ParElevations == {100, 500}

WorkerOn(first, last) == [i |-> first, j |-> 0, stop |-> last, at |-> "point"]

InitPar ==
    /\ rows \in 2..MaxParRows
    /\ cols \in 2..MaxParCols
    /\ heights \in Grids(rows, cols, ParElevations, 1)
    /\ sea_level \in SeaLevels
    /\ \E split \in 1..rows - 1 :
          workers = [w \in Workers |-> IF w = 1 THEN WorkerOn(0, split)
                                                ELSE WorkerOn(split, rows)]
    /\ pc = "par" /\ outcome = "running"
    /\ i = 0 /\ j = 0
    /\ points = <<>> /\ scalars = EmptyArray /\ cells = <<>>
    /\ nbr_neighbours = 0 /\ dist = 0 /\ is_flat = FALSE
    /\ NoLut

parFrame == <<gridVars, pc, outcome, i, j, flatVars, lutVars>>

\* lines 91-92
ParInsertPoint(w) ==
    /\ workers[w].at = "point"
    /\ LET r == workers[w].i
           c == workers[w].j
       IN  points' = InsertNextPoint(points,
              spherical_coordinates(r, c, cell_height(heights, r, c, sea_level), rows, cols))
    /\ workers' = [workers EXCEPT ![w].at = "scalar"]
    /\ UNCHANGED <<parFrame, scalars, cells>>

\* lines 94-96
ParInsertScalar(w) ==
    /\ workers[w].at = "scalar"
    /\ LET r == workers[w].i
           c == workers[w].j
       IN  scalars' = InsertTuple1(scalars, coord_to_idx(r, c, cols),
              cell_scalar(is_neighbourhood_flat(heights, r, c, NBR_VAL_FLAT, 1),
                          At(heights, r, c), sea_level))
    /\ workers' = [workers EXCEPT ![w].at = "cell"]
    /\ UNCHANGED <<parFrame, points, cells>>

\* lines 98-103, then the loops' increments over the worker's rows
ParInsertCell(w) ==
    /\ workers[w].at = "cell"
    /\ LET r == workers[w].i
           c == workers[w].j
           r2 == IF c + 1 < cols THEN r ELSE r + 1
           c2 == IF c + 1 < cols THEN c + 1 ELSE 0
       IN  /\ cells' = IF cell_has_face(r, c)
                       THEN InsertNextCell(cells, cell_quad(r, c, cols))
                       ELSE cells
           /\ workers' = [workers EXCEPT
                 ![w].i = r2, ![w].j = c2,
                 ![w].at = IF r2 < workers[w].stop THEN "point" ELSE "done"]
    /\ UNCHANGED <<parFrame, points, scalars>>

NextPar == \E w \in Workers : ParInsertPoint(w) \/ ParInsertScalar(w) \/ ParInsertCell(w)

SpecPar == InitPar /\ [][NextPar]_vars

AllDone == pc = "par" /\ \A w \in Workers : workers[w].at = "done"

\* what the sequential row-major build stores for cell (r, c)
SeqVertex(r, c) ==
    spherical_coordinates(r, c, Max2(sea_level, At(heights, r, c)), rows, cols)

SeqScalar(r, c) ==
    IF is_neighbourhood_flat(heights, r, c, NBR_VAL_FLAT, 1) \/ At(heights, r, c) <= sea_level
    THEN 0 ELSE At(heights, r, c)

====
